---- MODULE Spec2Model ----
(***************************************************************************)
(* The MMseqs2 API client of alphafold/data: run_mmseqs                    *)
(* (alphafold/data/tools/mmseqs2.py) and run (alphafold/data/mmseqs2.py).  *)
(* One invocation: argument set-up, the submit / poll / download retry     *)
(* loop against the server, then extraction and parsing of the archive.    *)
(* The server, the random sleep draws and the file system are the          *)
(* environment: every reply, every draw and every file the program reads   *)
(* is a nondeterministic choice.                                           *)
(***************************************************************************)
EXTENDS Integers, Sequences, FiniteSets, TLC

(* ------------------------------ bounds --------------------------------- *)

\* longest input batch
MaxBatch == 3
\* HTTP requests one invocation may issue before the model stops following it
MaxRequests == 5
\* the model draws random.randint(0, 5) from 0..MaxRand
MaxRand == 1

(* ------------------------- program constants --------------------------- *)

\* N = 101: the identifier of the first unique sequence
FirstId == 101
\* sleep_time = 5 + random.randint(0, 5)
BaseSleep == 5
\* TIME_ESTIMATE = 150 * len(seqs_unique)
SecondsPerSequence == 150

Residues == {"S", "T"}
TicketIds == {1, 2}
\* out has no "id" key
NoId == 0

Statuses ==
    {"UNKNOWN", "RATELIMIT", "RUNNING", "PENDING", "COMPLETE", "ERROR", "MAINTENANCE"}

\* the paths the program touches: path = prefix, tar_gz_file, the members of
\* the archive, and the parent f"{prefix}_{mode}" of the template directories
OutDir == "prefix"
TarGz == "out.tar.gz"
PairA3M == "pair.a3m"
UnirefA3M == "uniref.a3m"
EnvA3M == "bfd.mgnify30.metaeuk30.smag30.a3m"
HitsM8 == "pdb70.m8"
TemplateRoot == "prefix_mode"

Batches == UNION {[1..n -> Residues] : n \in 1..MaxBatch}

(* ------------------------------- state --------------------------------- *)

VARIABLES
    impl,                \* "run_mmseqs" (tools/mmseqs2.py) or "run" (mmseqs2.py)
    pc,                  \* position in the function body
    seqs,                \* argument x, as a list
    use_env, use_filter, use_templates, use_pairing,
    filter,              \* legacy argument: "None", "True" or "False"
    submission_endpoint, mode,
    seqs_unique, Ms, REDO,
    out,                 \* the last parsed reply: [status, id]
    ID, TIME, TIME_ESTIMATE,
    a3m_files,           \* the expected alignment files
    templates,           \* dict: identifier -> list of structure ids
    template_paths,      \* dict: identifier -> template directory
    a3m_lines,           \* dict: identifier -> list of lines
    returned,            \* the value returned: [a3m_lines, template_paths]
    bound,               \* the locals among the four above that are assigned
    fs,                  \* the file system: path -> content
    raised,              \* the exception that ended the invocation, or "none"
    last,                \* history: the most recent HTTP request
    reply,               \* history: the raw reply to it
    ticket,              \* history: the id in the most recent submission reply
    nRequests, nDownloads, \* history: requests issued, archive downloads
    nSleeps              \* history: the calls of time.sleep

vars ==
    <<impl, pc, seqs, use_env, use_filter, use_templates, use_pairing, filter,
      submission_endpoint, mode, seqs_unique, Ms, REDO, out, ID, TIME,
      TIME_ESTIMATE, a3m_files, templates, template_paths, a3m_lines, returned,
      bound, fs, raised, last, reply, ticket, nRequests, nDownloads, nSleeps>>

args == <<seqs, filter>>
flags == <<use_env, use_filter, use_templates, use_pairing>>
setup == <<submission_endpoint, mode, seqs_unique, Ms, TIME_ESTIMATE>>
driver == <<out, ID, TIME, REDO>>
assembler == <<a3m_files, templates, template_paths, a3m_lines, returned, bound>>
history == <<last, reply, ticket, nRequests, nDownloads, nSleeps>>

(* ------------------------------ helpers -------------------------------- *)

Contains(s, x) == \E i \in 1..Len(s) : s[i] = x

\* Dedupe without the test "x not in seqs_unique"
DedupeKeepsAll(s, acc) == acc \o s

\* [seqs_unique.append(x) for x in seqs if x not in seqs_unique]
RECURSIVE Dedupe(_, _)
Dedupe(s, acc) ==
    IF s = <<>> THEN acc
    ELSE Dedupe(Tail(s), IF Contains(acc, Head(s)) THEN acc ELSE Append(acc, Head(s)))

\* list.index: the 0-based position of the first occurrence
Index(s, x) == (CHOOSE i \in 1..Len(s) : s[i] = x /\ \A j \in 1..(i - 1) : s[j] # x) - 1

\* Ms = [N + seqs_unique.index(seq) for seq in seqs]
IdentifierMap(s, uniq) == [i \in 1..Len(s) |-> FirstId + Index(uniq, s[i])]

\* Text is a sequence of tokens: ">", an identifier in decimal, a residue
\* string, the NUL byte "\x00" and the line end "\n".
NUL == "\\x00"
NL == "\\n"

\* submit, lines 22-25: query += f">{n}\n{seq}\n" for each sequence, n from N
RECURSIVE Query(_, _)
Query(s, n) ==
    IF s = <<>> THEN <<>>
    ELSE <<">", ToString(n), NL, Head(s), NL>> \o Query(Tail(s), n + 1)

SubmissionEndpoint(pairing) == IF pairing THEN "ticket/pair" ELSE "ticket/msa"

\* ModeOf with the two no-filter modes exchanged
ModeOfSwapped(pairing, filt, env) ==
    IF pairing THEN ""
    ELSE IF filt THEN (IF env THEN "env" ELSE "all")
    ELSE (IF env THEN "nofilter" ELSE "env-nofilter")

\* setup mode, lines 56-62
ModeOf(pairing, filt, env) ==
    IF pairing THEN ""
    ELSE IF filt THEN (IF env THEN "env" ELSE "all")
    ELSE (IF env THEN "env-nofilter" ELSE "nofilter")

\* if filter is not None: use_filter = filter
EffectiveFilter(legacy, flag) ==
    IF legacy = "None" THEN flag ELSE legacy = "True"

NoRequest == [kind |-> "none", url |-> "", id |-> NoId, mode |-> "", q |-> <<>>]
SubmitRequest ==
    [kind |-> "submit", url |-> submission_endpoint, id |-> NoId, mode |-> mode,
     q |-> Query(seqs_unique, FirstId)]
StatusRequest == [kind |-> "status", url |-> "ticket", id |-> ID, mode |-> "", q |-> <<>>]
DownloadRequest ==
    [kind |-> "download", url |-> "result/download", id |-> ID, mode |-> "", q |-> <<>>]

\* what the server may answer: a JSON object with a status and an id, or a body
\* that is not JSON
Malformed == [status |-> "MALFORMED", id |-> NoId]
SubmitReplies == [status : Statuses, id : TicketIds] \cup {Malformed}
StatusReplies(id) == [status : Statuses, id : {id}] \cup {Malformed}

\* ParseReply with a body that is not JSON read as a transient status
ParseReplyLenient(r) == IF r = Malformed THEN [status |-> "UNKNOWN", id |-> NoId] ELSE r

\* submit / status: res.json(), and {"status": "ERROR"} on ValueError
ParseReply(r) == IF r = Malformed THEN [status |-> "ERROR", id |-> NoId] ELSE r

SleepTimes == {BaseSleep + r : r \in 0..MaxRand}

\* line 88: while out["status"] in ["UNKNOWN", "RATELIMIT"]
ResubmitStatuses == {"UNKNOWN", "RATELIMIT"}

\* the test of line 95 left out
SubmitFatalWithoutError == {"MAINTENANCE"}
\* the test of line 100 left out
SubmitFatalWithoutMaintenance == {"ERROR"}
\* lines 95 and 100: the statuses that raise after submission
SubmitFatalStatuses == {"ERROR", "MAINTENANCE"}

\* the polling loop without UNKNOWN
PollStatusesWithoutUnknown == {"RUNNING", "PENDING"}
\* line 106: while out["status"] in ["UNKNOWN", "RUNNING", "PENDING"]
PollStatuses == {"UNKNOWN", "RUNNING", "PENDING"}

\* the test of line 121 left out
PollFatalNone == {}
\* line 121: the status that raises after polling
PollFatalStatuses == {"ERROR"}

(* ---------------------------- file system ------------------------------ *)

\* a dict, or a directory listing: a function from its keys
Empty == <<>>
Put(d, k, v) == [x \in DOMAIN d \cup {k} |-> IF x = k THEN v ELSE d[x]]
\* extractall: the members replace what is there
Overlay(d, e) == [x \in DOMAIN d \cup DOMAIN e |-> IF x \in DOMAIN e THEN e[x] ELSE d[x]]

isfile(name) == name \in DOMAIN fs
Dir == <<"dir">>

\* the identifiers a file may name: those of the batch and one more
Identifiers == FirstId..(FirstId + MaxBatch)
\* the most unique sequences a batch can hold
MaxUnique == IF MaxBatch < Cardinality(Residues) THEN MaxBatch ELSE Cardinality(Residues)

\* one query's alignment in an a3m file: its header and sequence, one hit,
\* with the NUL byte of the previous record in front of every record but the first
RECURSIVE A3M(_, _, _)
A3M(n, k, text) ==
    IF k = 0 THEN <<<<NUL>>>>
    ELSE << (IF n = FirstId THEN <<>> ELSE <<NUL>>) \o <<">", ToString(n), NL>>,
            <<text, NL>>, <<">", "hit", NL>>, <<text, NL>> >>
         \o A3M(n + 1, k - 1, text)

\* a line of pdb70.m8: eleven or more whitespace-separated fields
HitLine(n, pdb) == <<ToString(n), pdb, "q", "-", "-", "-", "-", "-", "-", "-", "e">>

RECURSIVE Hits(_, _)
Hits(n, h) ==
    IF h = 0 THEN <<>>
    ELSE <<HitLine(n, "1abc"), HitLine(n, "2xyz")>> \o Hits(n + 1, h - 1)

\* what the server may deliver for a finished job: alignments for k queries
\* and template hits for the first h of them
ArchiveFor(k, h) ==
    [valid |-> TRUE,
     members |->
        [f \in {PairA3M, UnirefA3M, EnvA3M, HitsM8} |->
            CASE f = PairA3M -> A3M(FirstId, k, "P")
              [] f = UnirefA3M -> A3M(FirstId, k, "U")
              [] f = EnvA3M -> A3M(FirstId, k, "E")
              [] f = HitsM8 -> Hits(FirstId, h)]]

ServerArchives == {ArchiveFor(k, h) : k \in 0..MaxUnique, h \in 0..1}
\* a body that is no archive
Garbage == [valid |-> FALSE, members |-> Empty]

\* what result/download/{ID} may deliver: the archive of a finished job; for a
\* job that is not finished, no archive or an archive without results
Downloads(status) ==
    IF status = "COMPLETE" THEN ServerArchives ELSE {Garbage, ArchiveFor(0, 0)}

(* ------------------------------- parsing ------------------------------- *)

\* line.replace("\x00", "")
RECURSIVE StripNul(_)
StripNul(line) ==
    IF line = <<>> THEN <<>>
    ELSE (IF Head(line) = NUL THEN <<>> ELSE <<Head(line)>>) \o StripNul(Tail(line))

\* str.rstrip
RECURSIVE rstrip(_)
rstrip(line) ==
    IF line # <<>> /\ line[Len(line)] = NL THEN rstrip(SubSeq(line, 1, Len(line) - 1))
    ELSE line

IsInt(text) == Len(text) = 1 /\ \E n \in Identifiers : ToString(n) = text[1]
int(text) == CHOOSE n \in Identifiers : ToString(n) = text[1]

\* M = None
None == 0

\* GatherLine without the test "M not in a3m_lines": a header that is read
\* again starts its identifier's list afresh
GatherLineReplaces(st, line) ==
    IF st.err # "none" \/ Len(line) = 0 THEN st
    ELSE
        LET nul == Contains(line, NUL)
            text == IF nul THEN StripNul(line) ELSE line
            update_M == st.update_M \/ nul
            header == text # <<>> /\ Head(text) = ">" /\ update_M
        IN  IF header /\ ~IsInt(rstrip(Tail(text)))
            THEN [st EXCEPT !.err = "ValueError"]
            ELSE
                LET M == IF header THEN int(rstrip(Tail(text))) ELSE st.M
                    d == IF header THEN Put(st.d, M, <<>>) ELSE st.d
                IN  IF M \notin DOMAIN d
                    THEN [st EXCEPT !.err = "KeyError"]
                    ELSE [d |-> Put(d, M, Append(d[M], text)),
                          M |-> M,
                          update_M |-> IF header THEN FALSE ELSE update_M,
                          err |-> "none"]

\* GatherLine without update_M: every line that starts with ">" is read as the
\* header of a query
GatherLineEveryHeader(st, line) ==
    IF st.err # "none" \/ Len(line) = 0 THEN st
    ELSE
        LET nul == Contains(line, NUL)
            text == IF nul THEN StripNul(line) ELSE line
            header == text # <<>> /\ Head(text) = ">"
        IN  IF header /\ ~IsInt(rstrip(Tail(text)))
            THEN [st EXCEPT !.err = "ValueError"]
            ELSE
                LET M == IF header THEN int(rstrip(Tail(text))) ELSE st.M
                    d == IF header /\ M \notin DOMAIN st.d THEN Put(st.d, M, <<>>) ELSE st.d
                IN  IF M \notin DOMAIN d
                    THEN [st EXCEPT !.err = "KeyError"]
                    ELSE [d |-> Put(d, M, Append(d[M], text)),
                          M |-> M,
                          update_M |-> FALSE,
                          err |-> "none"]

\* lines 170-178: one line of an a3m file
GatherLine(st, line) ==
    IF st.err # "none" \/ Len(line) = 0 THEN st
    ELSE
        LET nul == Contains(line, NUL)
            text == IF nul THEN StripNul(line) ELSE line
            update_M == st.update_M \/ nul
            header == text # <<>> /\ Head(text) = ">" /\ update_M
        IN  IF header /\ ~IsInt(rstrip(Tail(text)))
            THEN [st EXCEPT !.err = "ValueError"]
            ELSE
                LET M == IF header THEN int(rstrip(Tail(text))) ELSE st.M
                    d == IF header /\ M \notin DOMAIN st.d THEN Put(st.d, M, <<>>) ELSE st.d
                IN  IF M \notin DOMAIN d
                    THEN [st EXCEPT !.err = "KeyError"]
                    ELSE [d |-> Put(d, M, Append(d[M], text)),
                          M |-> M,
                          update_M |-> IF header THEN FALSE ELSE update_M,
                          err |-> "none"]

RECURSIVE GatherLines(_, _)
GatherLines(st, lines) ==
    IF lines = <<>> THEN st ELSE GatherLines(GatherLine(st, Head(lines)), Tail(lines))

\* lines 167-178: every a3m file in turn; update_M, M = True, None per file
RECURSIVE GatherFiles(_, _, _)
GatherFiles(d, names, disk) ==
    IF names = <<>> THEN [d |-> d, err |-> "none"]
    ELSE IF Head(names) \notin DOMAIN disk THEN [d |-> d, err |-> "FileNotFoundError"]
    ELSE
        LET st == GatherLines([d |-> d, M |-> None, update_M |-> TRUE, err |-> "none"],
                              disk[Head(names)])
        IN  IF st.err # "none" THEN [d |-> st.d, err |-> st.err]
            ELSE GatherFiles(st.d, Tail(names), disk)

\* "".join(lines)
RECURSIVE Join(_)
Join(lines) == IF lines = <<>> THEN <<>> ELSE Head(lines) \o Join(Tail(lines))

\* lines 146-151: group the structure ids of pdb70.m8 by identifier
RECURSIVE ReadHits(_, _)
ReadHits(t, lines) ==
    IF lines = <<>> THEN [d |-> t, err |-> "none"]
    ELSE
        LET p == Head(lines)
        IN  IF Len(p) < 11 THEN [d |-> t, err |-> "IndexError"]
            ELSE IF ~IsInt(<<p[1]>>) THEN [d |-> t, err |-> "ValueError"]
            ELSE
                LET M == int(<<p[1]>>)
                    old == IF M \in DOMAIN t THEN t[M] ELSE <<>>
                IN  ReadHits(Put(t, M, Append(old, p[2])), Tail(lines))

\* TMPL_PATH = f"{prefix}_{mode}/templates_{k}"
TMPL_PATH(k) == TemplateRoot \o "/templates_" \o ToString(k)

\* ExpectedFiles without line 135: the environmental file is never expected
ExpectedFilesWithoutEnv(pairing, env) ==
    IF pairing THEN <<PairA3M>> ELSE <<UnirefA3M>>

\* lines 131-135
ExpectedFiles(pairing, env) ==
    IF pairing THEN <<PairA3M>>
    ELSE IF env THEN <<UnirefA3M, EnvA3M>> ELSE <<UnirefA3M>>

(* ------------------------------- Init ---------------------------------- *)

\* the output directory before the call: missing, empty, or holding the
\* out.tar.gz of an earlier run
InitialDirs ==
    {Empty, Put(Empty, OutDir, Dir)}
    \cup {Put(Put(Empty, OutDir, Dir), TarGz, a) : a \in {Garbage, ArchiveFor(MaxUnique, 1)}}

Init ==
    /\ impl \in {"run_mmseqs", "run"}
    /\ pc = "call"
    /\ seqs \in Batches
    /\ use_env \in BOOLEAN
    /\ use_filter \in BOOLEAN
    /\ use_templates \in BOOLEAN
    /\ use_pairing \in BOOLEAN
    /\ filter \in {"None", "True", "False"}
    /\ fs \in InitialDirs
    /\ submission_endpoint = ""
    /\ mode = ""
    /\ seqs_unique = <<>>
    /\ Ms = <<>>
    /\ REDO = TRUE
    /\ out = [status |-> "", id |-> NoId]
    /\ ID = NoId
    /\ TIME = 0
    /\ TIME_ESTIMATE = 0
    /\ a3m_files = <<>>
    /\ templates = Empty
    /\ template_paths = Empty
    /\ a3m_lines = Empty
    /\ returned = [a3m_lines |-> <<>>, template_paths |-> <<>>]
    /\ bound = {}
    /\ raised = "none"
    /\ last = NoRequest
    /\ reply = [status |-> "", id |-> NoId]
    /\ ticket = NoId
    /\ nRequests = 0
    /\ nDownloads = 0
    /\ nSleeps = 0

(* ------------------------------ actions -------------------------------- *)

\* where control goes when the archive is already on disk: run_mmseqs skips to
\* its return statement; what run does after the skipped block is not in its
\* source file
AfterSkip == IF impl = "run_mmseqs" THEN "return" ELSE "run_tail"

\* lines 19-81 of run_mmseqs (16-80 of run): everything before the retry loop
Setup ==
    /\ pc = "call"
    /\ submission_endpoint' = SubmissionEndpoint(use_pairing)
    /\ use_filter' = EffectiveFilter(filter, use_filter)
    /\ mode' = ModeOf(use_pairing, use_filter', use_env)
    /\ use_templates' = (use_templates /\ ~use_pairing)
    /\ use_env' = (use_env /\ ~use_pairing)
    /\ fs' = IF isfile(OutDir) THEN fs ELSE Put(fs, OutDir, Dir)
    /\ seqs_unique' = Dedupe(seqs, <<>>)
    /\ Ms' = IdentifierMap(seqs, seqs_unique')
    /\ REDO' = TRUE
    /\ IF isfile(TarGz)
       THEN /\ pc' = AfterSkip
            /\ UNCHANGED TIME_ESTIMATE
       ELSE /\ pc' = "submit"
            /\ TIME_ESTIMATE' = SecondsPerSequence * Len(seqs_unique')
    /\ UNCHANGED <<impl, args, use_pairing, out, ID, TIME, assembler, raised, history>>

\* the unchanged part of every step of the retry loop
DriverFrame == UNCHANGED <<impl, args, flags, setup, assembler>>

\* requests.post to the submission endpoint and the parsing of its reply
Post(r) ==
    /\ nRequests < MaxRequests
    /\ last' = SubmitRequest
    /\ reply' = r
    /\ ticket' = r.id
    /\ nRequests' = nRequests + 1
    /\ out' = ParseReply(r)

\* line 87: out = submit(seqs_unique, mode, N)
Submit ==
    /\ pc = "submit"
    /\ \E r \in SubmitReplies : Post(r)
    /\ pc' = "submitted"
    /\ UNCHANGED <<ID, TIME, REDO, fs, raised, nDownloads, nSleeps>>
    /\ DriverFrame

\* lines 88-93: sleep and resubmit while the status is UNKNOWN or RATELIMIT
Resubmit ==
    /\ pc = "submitted"
    /\ out.status \in ResubmitStatuses
    /\ \E sleep_time \in SleepTimes :
        /\ nSleeps' = nSleeps + 1
        /\ \E r \in SubmitReplies : Post(r)
    /\ pc' = "submitted"
    /\ UNCHANGED <<ID, TIME, REDO, fs, raised, nDownloads>>
    /\ DriverFrame

\* lines 95-101: ERROR or MAINTENANCE after submission
SubmitFailed ==
    /\ pc = "submitted"
    /\ out.status \in SubmitFatalStatuses
    /\ raised' = IF out.status = "ERROR" THEN "Exception: errors"
                 ELSE "Exception: maintenance"
    /\ pc' = "raised"
    /\ UNCHANGED <<driver, fs, history>>
    /\ DriverFrame

\* TakeTicket without the assignment of ID: the ticket of an earlier submission
\* (or none) stays in use
TakeTicketKeepsID ==
    /\ pc = "submitted"
    /\ out.status \notin ResubmitStatuses \cup SubmitFatalStatuses
    /\ ID' = ID
    /\ TIME' = 0
    /\ pc' = "poll"
    /\ UNCHANGED <<out, REDO, fs, raised, history>>
    /\ DriverFrame

\* lines 104-105: ID, TIME = out["id"], 0
TakeTicket ==
    /\ pc = "submitted"
    /\ out.status \notin ResubmitStatuses \cup SubmitFatalStatuses
    /\ ID' = out.id
    /\ TIME' = 0
    /\ pc' = "poll"
    /\ UNCHANGED <<out, REDO, fs, raised, history>>
    /\ DriverFrame

\* lines 106-114: sleep, query the ticket, count the time spent RUNNING
Poll ==
    /\ pc = "poll"
    /\ out.status \in PollStatuses
    /\ nRequests < MaxRequests
    /\ \E t \in SleepTimes : \E r \in StatusReplies(ID) :
        /\ nSleeps' = nSleeps + 1
        /\ last' = StatusRequest
        /\ reply' = r
        /\ nRequests' = nRequests + 1
        /\ out' = ParseReply(r)
        /\ TIME' = IF out'.status = "RUNNING" THEN TIME + t ELSE TIME
    /\ pc' = "poll"
    /\ UNCHANGED <<ID, REDO, fs, raised, ticket, nDownloads>>
    /\ DriverFrame

\* lines 121-125: ERROR at the end of polling
PollFailed ==
    /\ pc = "poll"
    /\ out.status \notin PollStatuses
    /\ out.status \in PollFatalStatuses
    /\ REDO' = FALSE
    /\ raised' = "Exception: errors"
    /\ pc' = "raised"
    /\ UNCHANGED <<out, ID, TIME, fs, history>>
    /\ DriverFrame

\* lines 116-119: REDO = False when the status is COMPLETE
RedoAfter(status, redo) == IF status = "COMPLETE" THEN FALSE ELSE redo

\* where control goes after download(ID, tar_gz_file): in run_mmseqs the call
\* ends the body of while REDO; in run the file preparation and the extraction
\* follow it inside the body
AfterDownload(redo) ==
    IF impl = "run_mmseqs" THEN (IF redo THEN "submit" ELSE "prep") ELSE "prep"

\* lines 116-119 and 128: the end of polling in every case that does not raise
Download ==
    /\ pc = "poll"
    /\ out.status \notin PollStatuses
    /\ out.status \notin PollFatalStatuses
    /\ nRequests < MaxRequests
    /\ REDO' = RedoAfter(out.status, REDO)
    /\ last' = DownloadRequest
    /\ reply' = [status |-> "CONTENT", id |-> NoId]
    /\ nRequests' = nRequests + 1
    /\ nDownloads' = nDownloads + 1
    /\ \E content \in Downloads(out.status) : fs' = Put(fs, TarGz, content)
    /\ pc' = AfterDownload(REDO')
    /\ UNCHANGED <<out, ID, TIME, raised, ticket, nSleeps>>
    /\ DriverFrame

\* the unchanged part of every step after the retry loop
AssemblerFrame == UNCHANGED <<impl, args, flags, setup, driver, history>>

Raise(e) == pc' = "raised" /\ raised' = e
Goto(l) == pc' = l /\ raised' = "none"

\* what follows the extraction: the template block in run_mmseqs; in run the
\* source file ends inside that block
AfterExtract == IF impl = "run_mmseqs" THEN "templates" ELSE "run_tail"

\* lines 131-140 (132-141 of run): the expected files, and the extraction of
\* the archive when one of them is missing
Extract ==
    /\ pc = "prep"
    /\ a3m_files' = ExpectedFiles(use_pairing, use_env)
    /\ IF \E i \in 1..Len(a3m_files') : ~isfile(a3m_files'[i])
       THEN IF fs[TarGz].valid
            THEN Goto(AfterExtract) /\ fs' = Overlay(fs, fs[TarGz].members)
            ELSE Raise("ReadError") /\ UNCHANGED fs
       ELSE Goto(AfterExtract) /\ UNCHANGED fs
    /\ UNCHANGED <<templates, template_paths, a3m_lines, returned, bound>>
    /\ AssemblerFrame

\* TemplateDirs giving every identifier a directory, hits or not
TemplateDirsForAll(t) == [k \in Identifiers |-> TMPL_PATH(k)]

\* lines 154-163: a directory per identifier with hits
TemplateDirs(t) == [k \in DOMAIN t |-> TMPL_PATH(k)]

\* lines 143-163: the hits file, when templates are requested, and the
\* template directories
Templates ==
    /\ pc = "templates"
    /\ LET hits == IF isfile(HitsM8) THEN ReadHits(Empty, fs[HitsM8])
                   ELSE [d |-> Empty, err |-> "FileNotFoundError"]
           new == {k \in DOMAIN hits.d : ~isfile(TMPL_PATH(k))}
       IN  IF ~use_templates
           THEN \* for k, TMPL in templates.items(): templates was never assigned
                /\ Raise("UnboundLocalError: templates")
                /\ bound' = bound \cup {"template_paths"}
                /\ UNCHANGED <<templates, template_paths, fs>>
           ELSE IF hits.err # "none"
           THEN /\ Raise(hits.err)
                /\ bound' = bound \cup {"templates"}
                /\ templates' = hits.d
                /\ UNCHANGED <<template_paths, fs>>
           ELSE IF new # {} /\ ~isfile(TemplateRoot)
           THEN \* os.mkdir(TMPL_PATH) under a directory that does not exist
                /\ Raise("FileNotFoundError")
                /\ bound' = bound \cup {"templates", "template_paths"}
                /\ templates' = hits.d
                /\ UNCHANGED <<template_paths, fs>>
           ELSE /\ Goto("gather")
                /\ bound' = bound \cup {"templates", "template_paths"}
                /\ templates' = hits.d
                /\ template_paths' = TemplateDirs(hits.d)
                /\ fs' = Overlay(fs, [k \in {TMPL_PATH(n) : n \in new} |-> Dir])
    /\ UNCHANGED <<a3m_files, a3m_lines, returned>>
    /\ AssemblerFrame

\* lines 166-178: gather a3m lines
Gather ==
    /\ pc = "gather"
    /\ LET g == GatherFiles(Empty, a3m_files, fs)
       IN  /\ a3m_lines' = g.d
           /\ IF g.err = "none" THEN Goto("return") ELSE Raise(g.err)
    /\ bound' = bound \cup {"a3m_lines"}
    /\ UNCHANGED <<a3m_files, templates, template_paths, returned, fs>>
    /\ AssemblerFrame

\* line 181: ["".join(a3m_lines[n]) for n in Ms]
Blocks(d, ms) == [i \in 1..Len(ms) |-> Join(d[ms[i]])]

\* lines 184-189: the template directory of every index, or None
TemplatePathList(tp, ms) ==
    [i \in 1..Len(ms) |-> IF ms[i] \in DOMAIN tp THEN tp[ms[i]] ELSE "None"]

\* lines 181-192; with the archive already on disk at the call, line 192 alone
Return ==
    /\ pc = "return"
    /\ IF "a3m_lines" \notin bound
       THEN Raise("UnboundLocalError: a3m_lines") /\ UNCHANGED returned
       ELSE IF \E i \in 1..Len(Ms) : Ms[i] \notin DOMAIN a3m_lines
       THEN Raise("KeyError") /\ UNCHANGED returned
       ELSE /\ Goto("returned")
            /\ returned' =
                 [a3m_lines |-> Blocks(a3m_lines, Ms),
                  template_paths |->
                     IF use_templates THEN TemplatePathList(template_paths, Ms) ELSE <<>>]
    /\ UNCHANGED <<a3m_files, templates, template_paths, a3m_lines, bound, fs>>
    /\ AssemblerFrame

Next ==
    \/ Setup
    \/ Submit
    \/ Resubmit
    \/ SubmitFailed
    \/ TakeTicket
    \/ Poll
    \/ PollFailed
    \/ Download
    \/ Extract
    \/ Templates
    \/ Gather
    \/ Return

Spec == Init /\ [][Next]_vars

(* ---------------------- the result assembler alone --------------------- *)

\* longest alignment file the assembler is given
MaxLines == 3

\* the lines an alignment file is made of: the header of a query, with or
\* without the NUL byte of the previous record in front, a sequence line, a
\* sequence line carrying the NUL byte, and the header of a hit
A3MLines ==
    {<<">", ToString(FirstId), NL>>,
     <<">", ToString(FirstId + 1), NL>>,
     <<NUL, ">", ToString(FirstId), NL>>,
     <<"S", NL>>,
     <<"S", NUL, NL>>,
     <<">", "hit", NL>>}

\* for line in open(a3m_file, "r"): any content
A3MFiles == UNION {[1..n -> A3MLines] : n \in 0..MaxLines}

\* an archive whose uniref.a3m and pair.a3m hold the lines u
ArchiveOf(u) ==
    [valid |-> TRUE,
     members |->
        [f \in {PairA3M, UnirefA3M, EnvA3M, HitsM8} |->
            CASE f = PairA3M -> u
              [] f = UnirefA3M -> u
              [] f = EnvA3M -> A3M(FirstId, MaxUnique, "E")
              [] f = HitsM8 -> Hits(FirstId, 1)]]

\* the files an earlier invocation may have left in the working directory
StaleFiles ==
    [f \in {PairA3M, UnirefA3M, EnvA3M, HitsM8} |->
        IF f = HitsM8 THEN Hits(FirstId + 1, 1)
        ELSE <<<<">", ToString(FirstId), NL>>, <<"old", NL>>>>]
Leftovers == {[f \in S |-> StaleFiles[f]] : S \in SUBSET DOMAIN StaleFiles}

\* the working directory after download(ID, tar_gz_file)
Downloaded(a) == Put(Put(Empty, OutDir, Dir), TarGz, a)
\* the parent of the template directories exists
WithTemplateRoot(d) == Put(d, TemplateRoot, Dir)

\* the file system when line 130 is reached: an archive of any alignment
\* content in a clean directory, or a server archive next to leftover files
AssemblerDirs ==
    {WithTemplateRoot(Downloaded(ArchiveOf(u))) : u \in A3MFiles}
    \cup {Overlay(Downloaded(a), l) : a \in ServerArchives, l \in Leftovers}
    \cup {Overlay(WithTemplateRoot(Downloaded(a)), l) : a \in ServerArchives, l \in Leftovers}

\* run_mmseqs at line 130: the job of the first submission was COMPLETE at once
\* and its archive has been downloaded
InitAssembler ==
    /\ impl = "run_mmseqs"
    /\ pc = "prep"
    /\ seqs \in Batches
    /\ use_pairing \in BOOLEAN
    /\ use_env \in IF use_pairing THEN {FALSE} ELSE BOOLEAN
    /\ use_templates \in IF use_pairing THEN {FALSE} ELSE BOOLEAN
    /\ use_filter = TRUE
    /\ filter = "None"
    /\ fs \in AssemblerDirs
    /\ submission_endpoint = SubmissionEndpoint(use_pairing)
    /\ mode = ModeOf(use_pairing, use_filter, use_env)
    /\ seqs_unique = Dedupe(seqs, <<>>)
    /\ Ms = IdentifierMap(seqs, seqs_unique)
    /\ REDO = FALSE
    /\ \E id \in {1} :
        /\ out = [status |-> "COMPLETE", id |-> id]
        /\ ID = id
        /\ ticket = id
        /\ last = [kind |-> "download", url |-> "result/download", id |-> id,
                   mode |-> "", q |-> <<>>]
    /\ TIME = 0
    /\ TIME_ESTIMATE = SecondsPerSequence * Len(seqs_unique)
    /\ a3m_files = <<>>
    /\ templates = Empty
    /\ template_paths = Empty
    /\ a3m_lines = Empty
    /\ returned = [a3m_lines |-> <<>>, template_paths |-> <<>>]
    /\ bound = {}
    /\ raised = "none"
    /\ reply = [status |-> "CONTENT", id |-> NoId]
    /\ nRequests = 2
    /\ nDownloads = 1
    /\ nSleeps = 0

\* lines 130-192
NextAssembler ==
    \/ Extract
    \/ Templates
    \/ Gather
    \/ Return

SpecAssembler == InitAssembler /\ [][NextAssembler]_vars

(* ------------------------------- claims -------------------------------- *)

Terminal == pc \in {"raised", "returned", "run_tail"}

\* C1: a download request is issued only when the most recently observed status
\* is COMPLETE, and it is then the only download of the invocation.
C1_DownloadOnlyAfterComplete ==
    last.kind = "download" => (out.status = "COMPLETE" /\ nDownloads = 1)

\* C2: an invocation issues at most one download request.
C2_AtMostOneDownload == nDownloads <= 1

\* C3: with out.tar.gz on disk at the call, the invocation issues no request,
\* goes on to parsing and returns one alignment block per input, without failing.
C3_ResumeReturnsBlocks ==
    (impl = "run_mmseqs" /\ pc # "call" /\ isfile(TarGz) /\ nDownloads = 0)
        => /\ nRequests = 0
           /\ raised = "none"
           /\ (pc = "returned" => Len(returned.a3m_lines) = Len(seqs))

\* C4: a submission reply ERROR or MAINTENANCE is followed by the failure of the
\* invocation and by nothing else: no request, no write of the archive.
C4_SubmitFatalIsTerminal ==
    [][/\ (pc = "submitted" /\ out.status \in {"ERROR", "MAINTENANCE"})
            => /\ pc' = "raised"
               /\ raised' \in {"Exception: errors", "Exception: maintenance"}
               /\ UNCHANGED <<fs, last, nRequests, nDownloads, nSleeps>>
       /\ pc # "raised"]_vars

C4_Witness ==
    /\ pc = "raised"
    /\ last.kind = "submit"
    /\ reply.status = "MAINTENANCE"
    /\ raised = "Exception: maintenance"
    /\ ~isfile(TarGz)

\* C5: a status reply ERROR is followed by the failure of the invocation and by
\* nothing else: no download, no write of the archive, no resubmission.
C5_PollErrorIsTerminal ==
    [][/\ (pc = "poll" /\ out.status = "ERROR")
            => /\ pc' = "raised"
               /\ raised' = "Exception: errors"
               /\ UNCHANGED <<fs, last, nRequests, nDownloads, nSleeps>>
       /\ pc # "raised"]_vars

C5_Witness ==
    /\ pc = "raised"
    /\ last.kind = "status"
    /\ reply.status = "ERROR"
    /\ nDownloads = 0
    /\ ~isfile(TarGz)

\* C6 as stated: after a reply that is not JSON the invocation does not fail
\* (the request is retried).
C6_MalformedIsTransient == reply.status = "MALFORMED" => raised = "none"

\* C6 amended: a reply that is not JSON, to a submission or to a status request,
\* is read as status ERROR and the invocation fails at once, with no retry.
C6_MalformedIsFatal ==
    [][reply.status = "MALFORMED"
            => /\ out.status = "ERROR"
               /\ pc' = "raised"
               /\ raised' = "Exception: errors"
               /\ UNCHANGED <<fs, last, nRequests, nDownloads, nSleeps>>]_vars

C6_Witness ==
    /\ pc = "raised"
    /\ last.kind = "status"
    /\ reply.status = "MALFORMED"
    /\ raised = "Exception: errors"

\* C7: after a submission reply UNKNOWN or RATELIMIT the next step is a sleep
\* and the same submission again; after a status reply (or a first reply)
\* UNKNOWN, RUNNING or PENDING the next step is a sleep and a query of the same
\* ticket; neither step fails or downloads.
C7_TransientIsRetried ==
    [][/\ (pc = "submitted" /\ out.status \in {"UNKNOWN", "RATELIMIT"})
            => /\ pc' = "submitted"
               /\ last' = last
               /\ last'.kind = "submit"
       /\ (pc = "poll" /\ out.status \in {"UNKNOWN", "RUNNING", "PENDING"})
            => /\ pc' = "poll"
               /\ last'.kind = "status"
               /\ last'.id = ID
               /\ ID' = ID
       /\ (\/ pc = "submitted" /\ out.status \in {"UNKNOWN", "RATELIMIT"}
           \/ pc = "poll" /\ out.status \in {"UNKNOWN", "RUNNING", "PENDING"})
            => /\ nSleeps' = nSleeps + 1
               /\ nRequests' = nRequests + 1
               /\ raised' = "none"
               /\ nDownloads' = nDownloads
               /\ fs' = fs]_vars

\* three transient replies in a row: RATELIMIT or UNKNOWN twice, then polling
C7_Witness ==
    /\ pc = "poll"
    /\ last.kind = "status"
    /\ reply.status = "UNKNOWN"
    /\ nSleeps = 3
    /\ nRequests = 4
    /\ nDownloads = 0

\* the sequences before position i that differ from the one at i
DistinctBefore(s, i) == {s[j] : j \in 1..(i - 1)} \ {s[i]}
\* the first position holding the same sequence as position i
FirstOf(s, i) == CHOOSE j \in 1..i : s[j] = s[i] /\ \A m \in 1..(j - 1) : s[m] # s[i]

\* C8: the identifier of input i is 101 plus the number of distinct sequences
\* first seen before seqs[i]; equal sequences share it, distinct ones do not,
\* the identifiers are 101..101+k-1, and every submission carries each sequence
\* once, under its identifier.
C8_IdentifierMap ==
    pc # "call" =>
        LET k == Cardinality({seqs[i] : i \in 1..Len(seqs)})
        IN  /\ Len(Ms) = Len(seqs)
            /\ \A i \in 1..Len(seqs) :
                 Ms[i] = 101 + Cardinality(DistinctBefore(seqs, FirstOf(seqs, i)))
            /\ \A i, j \in 1..Len(seqs) : (seqs[i] = seqs[j]) <=> (Ms[i] = Ms[j])
            /\ {Ms[i] : i \in 1..Len(seqs)} = 101..(101 + k - 1)
            /\ last.kind = "submit" =>
                 /\ Len(last.q) = 5 * k
                 /\ \A i \in 1..Len(seqs) :
                      LET r == 5 * (Ms[i] - 101)
                      IN  /\ last.q[r + 1] = ">"
                          /\ last.q[r + 2] = ToString(Ms[i])
                          /\ last.q[r + 3] = NL
                          /\ last.q[r + 4] = seqs[i]
                          /\ last.q[r + 5] = NL

C8_Witness ==
    /\ seqs = <<"S", "T", "S">>
    /\ Ms = <<101, 102, 101>>
    /\ last.kind = "submit"
    /\ last.q = <<">", "101", NL, "S", NL, ">", "102", NL, "T", NL>>

\* the archive a server keeping to the protocol delivers for the batch
Conforming == \E h \in 0..1 : fs[TarGz] = ArchiveFor(Len(seqs_unique), h)

\* C9: once the job is complete and its archive downloaded, the invocation (here
\* without templates) returns one alignment text per input position, in input
\* order: the joined block of that position's identifier; it does not fail.
C9_ReturnsBlockPerInput ==
    (/\ impl = "run_mmseqs"
     /\ ~use_templates
     /\ last.kind = "download"
     /\ out.status = "COMPLETE"
     /\ Conforming
     /\ Terminal)
        => /\ pc = "returned"
           /\ Len(returned.a3m_lines) = Len(seqs)
           /\ \A i \in 1..Len(seqs) : returned.a3m_lines[i] = Join(a3m_lines[Ms[i]])
           /\ \A i, j \in 1..Len(seqs) :
                seqs[i] = seqs[j] => returned.a3m_lines[i] = returned.a3m_lines[j]

\* C10: after set-up the endpoint and the mode are those of the table, they
\* never change, and every submission carries them.
C10_ModeTable ==
    pc # "call" =>
        /\ use_filter = (IF filter = "None" THEN use_filter ELSE filter = "True")
        /\ use_pairing =>
             /\ mode = ""
             /\ submission_endpoint = "ticket/pair"
             /\ ~use_templates
             /\ ~use_env
        /\ ~use_pairing =>
             /\ submission_endpoint = "ticket/msa"
             /\ (use_filter /\ use_env) => mode = "env"
             /\ (use_filter /\ ~use_env) => mode = "all"
             /\ (~use_filter /\ use_env) => mode = "env-nofilter"
             /\ (~use_filter /\ ~use_env) => mode = "nofilter"
        /\ last.kind = "submit" =>
             /\ last.mode = mode
             /\ last.url = submission_endpoint

C10_ModeIsFixed ==
    /\ []C10_ModeTable
    /\ [][pc # "call" => (mode' = mode /\ submission_endpoint' = submission_endpoint)]_vars

\* a resubmission in the mode of the third row of the table
C10_Witness ==
    /\ last.kind = "submit"
    /\ nRequests >= 2
    /\ nSleeps >= 1
    /\ ~use_pairing /\ ~use_filter /\ use_env
    /\ last.mode = "env-nofilter"
    /\ last.url = "ticket/msa"

(* ------------------- claims on the result assembler -------------------- *)

\* the parsing of the alignment files has ended without an error
Parsed == pc \in {"return", "returned"} /\ "a3m_lines" \in bound

\* a line as it is stored: without its NUL bytes
WithoutNul(line) == SelectSeq(line, LAMBDA t : t # NUL)
StartsBlockMark(line) == WithoutNul(line) # <<>> /\ WithoutNul(line)[1] = ">"
CarriesNul(line) == \E i \in 1..Len(line) : line[i] = NUL

\* line h of file f is read as the header of a query: it starts with ">" and
\* no other ">" line lies before it, or none lies between a line carrying NUL
\* (line h itself included) and it
HeaderIsRead(f, h) ==
    /\ StartsBlockMark(f[h])
    /\ \/ \A p \in 1..(h - 1) : ~StartsBlockMark(f[p])
       \/ \E j \in 1..h :
            /\ CarriesNul(f[j])
            /\ \A p \in j..(h - 1) : ~StartsBlockMark(f[p])

\* the identifier a header names
IdOf(line) == CHOOSE n \in Identifiers : WithoutNul(line) = <<">", ToString(n), NL>>

\* the block that the header at line h opens: up to the next header that is read
BlockEnd(f, h) ==
    CHOOSE e \in h..Len(f) :
        /\ \A p \in (h + 1)..e : ~HeaderIsRead(f, p)
        /\ e = Len(f) \/ HeaderIsRead(f, e + 1)
Block(f, h) == [i \in 1..(BlockEnd(f, h) - h + 1) |-> WithoutNul(f[h + i - 1])]

\* the blocks of identifier n in file f from line h on, one after the other
RECURSIVE BlocksFrom(_, _, _)
BlocksFrom(f, n, h) ==
    IF h > Len(f) THEN <<>>
    ELSE IF HeaderIsRead(f, h) /\ IdOf(f[h]) = n
    THEN Block(f, h) \o BlocksFrom(f, n, BlockEnd(f, h) + 1)
    ELSE BlocksFrom(f, n, h + 1)

\* the blocks of identifier n in the files named, in the order of parsing
RECURSIVE TextOf(_, _)
TextOf(n, names) ==
    IF names = <<>> THEN <<>>
    ELSE BlocksFrom(fs[Head(names)], n, 1) \o TextOf(n, Tail(names))

\* C11: the lines accumulated under an identifier are the lines of all its
\* blocks, in the order of the files and of the lines, without NUL bytes: a
\* later block of the same identifier, re-read after a line carrying NUL, is
\* appended to the earlier one and never replaces it.
C11_BlocksAreAppended ==
    Parsed => \A n \in DOMAIN a3m_lines : a3m_lines[n] = TextOf(n, a3m_files)

\* two headers of 101 with a line carrying NUL between them
C11_Witness ==
    /\ pc = "returned"
    /\ a3m_files = <<UnirefA3M>>
    /\ fs[UnirefA3M] = << <<">", "101", NL>>, <<"S", NUL, NL>>, <<">", "101", NL>> >>
    /\ a3m_lines[101] = << <<">", "101", NL>>, <<"S", NL>>, <<">", "101", NL>> >>
    /\ returned.a3m_lines[1] = <<">", "101", NL, "S", NL, ">", "101", NL>>

\* pdb70.m8 has a line for identifier n
HasHits(n) == \E l \in 1..Len(fs[HitsM8]) : fs[HitsM8][l][1] = ToString(n)

C12_PathPerInput ==
    (pc = "returned" /\ use_templates) =>
        /\ Len(returned.template_paths) = Len(seqs)
        /\ \A i \in 1..Len(seqs) :
             returned.template_paths[i] =
                IF HasHits(Ms[i]) THEN "prefix_mode/templates_" \o ToString(Ms[i])
                ELSE "None"

\* C12: with templates requested, the list returned has one entry per input
\* position, in input order: the template directory of the position's
\* identifier, or None when pdb70.m8 has no line for it; neither a hits file
\* without lines nor an identifier without hits makes a step fail.
C12_MissingHitsGiveNone ==
    /\ []C12_PathPerInput
    /\ [][(pc = "templates" /\ use_templates /\ isfile(HitsM8) /\ fs[HitsM8] = <<>>)
            => pc' = "gather"]_vars
    /\ [][(/\ pc = "return"
           /\ use_templates
           /\ "a3m_lines" \in bound
           /\ \A i \in 1..Len(Ms) : Ms[i] \in DOMAIN a3m_lines)
            => pc' = "returned"]_vars

\* hits for 101 only, in a batch whose second sequence is 102
C12_Witness ==
    /\ pc = "returned"
    /\ use_templates
    /\ Ms = <<101, 102, 101>>
    /\ ~HasHits(102)
    /\ returned.template_paths =
         <<"prefix_mode/templates_101", "None", "prefix_mode/templates_101">>

\* C14: whatever the alignment files hold, no step of the assembly fails on a
\* lookup, and when the blocks are joined every identifier of the Identifier
\* Map has its block.
C14_EveryIndexResolves ==
    /\ raised # "KeyError"
    /\ Parsed => \A i \in 1..Len(Ms) : Ms[i] \in DOMAIN a3m_lines

\* the header of a query: ">" and an identifier
NamesId(line) == \E n \in Identifiers : WithoutNul(line) = <<">", ToString(n), NL>>
\* the last line starting with ">" at or before line i
LastMark(f, i) ==
    CHOOSE p \in 1..i :
        StartsBlockMark(f[p]) /\ \A q \in (p + 1)..i : ~StartsBlockMark(f[q])

\* C15 as stated: every line starting with ">" names the identifier under
\* which it and the lines up to the next ">" line are kept.
C15_EveryMarkSetsId ==
    Parsed =>
        \A k \in 1..Len(a3m_files) :
            LET f == fs[a3m_files[k]]
            IN  \A i \in 1..Len(f) :
                    /\ NamesId(f[LastMark(f, i)])
                    /\ IdOf(f[LastMark(f, i)]) \in DOMAIN a3m_lines
                    /\ Contains(a3m_lines[IdOf(f[LastMark(f, i)])], WithoutNul(f[i]))

\* the identifier in force at line i: that of the last header read at or before i
Owner(f, i) ==
    IdOf(f[CHOOSE h \in 1..i :
              HeaderIsRead(f, h) /\ \A q \in (h + 1)..i : ~HeaderIsRead(f, q)])
\* the lines of file f kept under identifier n
OwnedLines(f, n) ==
    LET at == SelectSeq([i \in 1..Len(f) |-> i], LAMBDA i : Owner(f, i) = n)
    IN  [k \in 1..Len(at) |-> WithoutNul(f[at[k]])]
RECURSIVE LinesOf(_, _)
LinesOf(n, names) ==
    IF names = <<>> THEN <<>>
    ELSE OwnedLines(fs[Head(names)], n) \o LinesOf(n, Tail(names))
\* the identifiers of the headers read in the files named
IdsRead(names) ==
    UNION {{IdOf(f[h]) : h \in {x \in 1..Len(f) : HeaderIsRead(f, x)}} :
              f \in {fs[names[k]] : k \in 1..Len(names)}}

\* C15 amended: a line starting with ">" sets the identifier only when a header
\* is due, at the first such line of a file and at the first at or after a
\* line carrying NUL; every line, any other ">" line included, is kept without
\* its NUL bytes under the identifier in force, in the order of reading.
C15_HeaderReadWhenDue ==
    Parsed =>
        /\ DOMAIN a3m_lines = IdsRead(a3m_files)
        /\ \A n \in DOMAIN a3m_lines : a3m_lines[n] = LinesOf(n, a3m_files)

\* the header of a hit, and a second query header with no NUL before it, stay
\* under 101
C15_Witness ==
    /\ pc = "returned"
    /\ a3m_files = <<UnirefA3M>>
    /\ fs[UnirefA3M] = << <<">", "101", NL>>, <<">", "hit", NL>>, <<">", "102", NL>> >>
    /\ DOMAIN a3m_lines = {101}
    /\ a3m_lines[101] = fs[UnirefA3M]

\* C17: the expected files are pair.a3m with pairing, otherwise uniref.a3m and,
\* exactly when use_env is set, the environmental file; the archive is extracted
\* exactly when one of them is missing, and when none is missing the step
\* leaves every file as it is.
C17_ExtractIffMissing ==
    [][pc = "prep" =>
        LET expected == IF use_pairing THEN {PairA3M}
                        ELSE IF use_env THEN {UnirefA3M, EnvA3M} ELSE {UnirefA3M}
            missing == \E f \in expected : f \notin DOMAIN fs
        IN  /\ {a3m_files'[i] : i \in 1..Len(a3m_files')} = expected
            /\ Len(a3m_files') = Cardinality(expected)
            /\ (missing /\ fs[TarGz].valid) =>
                  /\ pc' # "raised"
                  /\ \A m \in DOMAIN fs[TarGz].members :
                        m \in DOMAIN fs' /\ fs'[m] = fs[TarGz].members[m]
            /\ (missing /\ ~fs[TarGz].valid) => (pc' = "raised" /\ fs' = fs)
            /\ ~missing => (pc' # "raised" /\ fs' = fs)]_vars

\* both expected files were on disk: they keep their old content and the hits
\* file of the archive is not unpacked
C17_Witness ==
    /\ pc = "templates"
    /\ ~use_pairing /\ use_env
    /\ a3m_files = <<UnirefA3M, EnvA3M>>
    /\ fs[UnirefA3M] = StaleFiles[UnirefA3M]
    /\ fs[EnvA3M] # fs[TarGz].members[EnvA3M]
    /\ ~isfile(HitsM8)
    /\ ~isfile(PairA3M)

(* ----------------------- claims on the job driver ---------------------- *)

\* C13: when the extraction of the archive or the parsing is about to begin,
\* the retry loop has ended (REDO is false) with status COMPLETE and the
\* archive is on disk.
C13_AssemblyAfterDriver ==
    pc \in {"prep", "templates", "gather"}
        => (~REDO /\ out.status = "COMPLETE" /\ isfile(TarGz))

\* C16: a submission reply that is not JSON is handled as the reply ERROR is:
\* it is read as status ERROR without a ticket, and the one step that follows
\* is the raise of the same exception, with no sleep, no resubmission, no
\* status query and no download.
C16_MalformedSubmissionIsError ==
    /\ []((last.kind = "submit" /\ reply.status = "MALFORMED")
            => out = [status |-> "ERROR", id |-> NoId])
    /\ [][(pc = "submitted" /\ last.kind = "submit"
              /\ reply.status \in {"MALFORMED", "ERROR"})
            => /\ out.status = "ERROR"
               /\ pc' = "raised"
               /\ raised' = "Exception: errors"
               /\ UNCHANGED <<fs, last, reply, nRequests, nDownloads, nSleeps>>]_vars
    /\ [][pc = "raised" => FALSE]_vars

\* the first submission answered with a body that is not JSON
C16_Witness ==
    /\ pc = "raised"
    /\ raised = "Exception: errors"
    /\ last.kind = "submit"
    /\ reply.status = "MALFORMED"
    /\ nRequests = 1
    /\ nSleeps = 0
    /\ nDownloads = 0
    /\ ~isfile(TarGz)

\* C19: the retry loop is left, when not by a failure, after exactly one
\* download.
C19_LeavesLoopAfterOneDownload ==
    (pc = "prep" /\ ~REDO) => nDownloads = 1

\* C20: every status query and every download carries the ticket id of the most
\* recent submission reply; when that reply is COMPLETE the next request is the
\* download with its id, no status query comes between, and no request follows
\* the download.
C20_TicketOfLastSubmission ==
    /\ [](last.kind \in {"status", "download"} => last.id = ticket)
    /\ [][(pc = "submitted" /\ out.status = "COMPLETE")
            => /\ pc' = "poll"
               /\ ID' = reply.id
               /\ UNCHANGED <<out, last, nRequests, nSleeps>>]_vars
    /\ [][(pc = "poll" /\ out.status = "COMPLETE" /\ last.kind = "submit")
            => /\ last'.kind = "download"
               /\ last'.id = reply.id
               /\ nDownloads' = nDownloads + 1
               /\ nSleeps' = nSleeps
               /\ ~REDO']_vars
    /\ [][(last.kind = "download" /\ ~REDO)
            => UNCHANGED <<last, nRequests, nDownloads>>]_vars

\* the second submission is answered COMPLETE with another ticket than the
\* first; the download carries the second ticket
C20_Witness ==
    /\ last.kind = "download"
    /\ out.status = "COMPLETE"
    /\ reply.status = "CONTENT"
    /\ nRequests = 3
    /\ nSleeps = 1
    /\ nDownloads = 1
    /\ ticket = 2
    /\ last.id = 2

====
